---- MODULE Spec2Model ----
(***************************************************************************)
(* The text validators of src/validators/string.rs: SimpleStrValidator     *)
(* and FullStrValidator (is_match, build, validate, clone_dyn).            *)
(*                                                                         *)
(* A text (Rust String) is a sequence of characters; a character is a      *)
(* TLA+ string naming it.  An Option<T> is the empty set (None) or a       *)
(* singleton (Some(x)).  A ValResult is a record with ok = TRUE and the    *)
(* value, or ok = FALSE and the error's kind, context and offending value. *)
(***************************************************************************)
EXTENDS Integers, Sequences, FiniteSets, TLC

VARIABLES type_, dict, validator, dup, latest, call, threads

vars == <<type_, dict, validator, dup, latest, call, threads>>

-----------------------------------------------------------------------------
(* Bounds of the model *)

\* longest input text, in characters
MaxLen == 3
\* largest min_length / max_length a schema carries
MaxBound == 3
\* longest input text of a call on an instance or its duplicate, in characters
MaxDupLen == 2
\* longest input text of a concurrent call, in characters
MaxConcLen == 1

-----------------------------------------------------------------------------
(* Characters and texts *)

e_acute == "e'"
E_acute == "E'"
sharp_s == "sz"

\* characters whose UTF-8 encoding takes two bytes; the other ones here take one
TwoByteChars == {e_acute, E_acute, sharp_s}

AsciiLower == {"a", "b", "c", "h", "i", "s"}
AsciiUpper == {"A", "B", "C", "H", "I", "S"}

\* <<uppercase, lowercase>> pairs of the simple case mappings
CasePairs ==
    { <<"A", "a">>, <<"B", "b">>, <<"C", "c">>, <<"H", "h">>, <<"I", "i">>,
      <<"S", "s">>, <<E_acute, e_acute>> }

WhiteSpace == {" ", "\t"}

\* the characters input texts are drawn from: a lowercase ASCII letter, an
\* uppercase two-byte letter and a white space
InputAlphabet == {"a", E_acute, " "}

Texts(n) == UNION { [1..k -> InputAlphabet] : k \in 0..n }

utf8_len(c) == IF c \in TwoByteChars THEN 2 ELSE 1

\* str.len(): the length of the text in bytes
RECURSIVE len(_)
len(s) == IF s = <<>> THEN 0 ELSE utf8_len(Head(s)) + len(Tail(s))

RECURSIVE trim_start(_)
trim_start(s) ==
    IF s # <<>> /\ Head(s) \in WhiteSpace THEN trim_start(Tail(s)) ELSE s

RECURSIVE trim_end(_)
trim_end(s) ==
    IF s # <<>> /\ s[Len(s)] \in WhiteSpace
    THEN trim_end(SubSeq(s, 1, Len(s) - 1))
    ELSE s

\* str.trim(): leading and trailing white space removed
trim(s) == trim_end(trim_start(s))

\* char::to_lowercase
lower_char(c) ==
    IF \E p \in CasePairs : p[1] = c
    THEN <<(CHOOSE p \in CasePairs : p[1] = c)[2]>>
    ELSE <<c>>

\* char::to_uppercase; the sharp s has no single uppercase character
upper_char(c) ==
    IF c = sharp_s THEN <<"S", "S">>
    ELSE IF \E p \in CasePairs : p[2] = c
    THEN <<(CHOOSE p \in CasePairs : p[2] = c)[1]>>
    ELSE <<c>>

RECURSIVE to_lowercase(_)
to_lowercase(s) ==
    IF s = <<>> THEN <<>> ELSE lower_char(Head(s)) \o to_lowercase(Tail(s))

RECURSIVE to_uppercase(_)
to_uppercase(s) ==
    IF s = <<>> THEN <<>> ELSE upper_char(Head(s)) \o to_uppercase(Tail(s))

-----------------------------------------------------------------------------
(* Options and results *)

None == {}
Some(x) == {x}
unwrap(o) == CHOOSE x \in o : TRUE
unwrap_or(o, d) == IF o = None THEN d ELSE unwrap(o)

ValOk(v) == [ok |-> TRUE, value |-> v]
ValErr(k, ctx, v) == [ok |-> FALSE, kind |-> k, context |-> ctx, value |-> v]

-----------------------------------------------------------------------------
(* Collaborators: text coercion, pattern matcher, typed dictionary access *)

\* input values: texts, a byte string that decodes to a text, and a list
PyInputs(n) ==
    { [py |-> "str", text |-> s] : s \in Texts(n) }
        \cup { [py |-> "bytes", text |-> <<"a", " ">>], [py |-> "list", text |-> <<>>] }

\* validate_str: a text is taken as it is, a byte string is decoded, anything
\* else is a type error
validate_str(input) ==
    IF input.py \in {"str", "bytes"}
    THEN ValOk(input.text)
    ELSE ValErr("WrongType", <<>>, input.text)

LowerWord == "^[a-z]+$"
HasUpper == "[A-Z]"
BadPattern == "("

\* RegexPattern::py_new: the compiled pattern, or an error on bad syntax
RegexPattern_py_new(s) ==
    IF s \in {LowerWord, HasUpper} THEN ValOk(s) ELSE ValErr("PatternSyntaxError", <<>>, s)

\* RegexPattern::is_match: an unanchored search of the text
RegexPattern_is_match(pattern, s) ==
    IF pattern = LowerWord
    THEN s # <<>> /\ \A i \in 1..Len(s) : s[i] \in AsciiLower
    ELSE \E i \in 1..Len(s) : s[i] \in AsciiUpper

\* RegexPattern's to_string: the pattern string it was compiled from
RegexPattern_to_string(pattern) == pattern

\* dict_get!(dict, key, usize) fails on a value that is no usize
dict_get_usize_fails(o) == o # None /\ unwrap(o) < 0

-----------------------------------------------------------------------------
(* Schemas *)

Keys == {"pattern", "min_length", "max_length", "strip_whitespace", "to_lower", "to_upper"}

\* PyDict::get_item: None when the key is absent
get_item(d, key) == d[key]

OptBool == {None, Some(TRUE), Some(FALSE)}
OptLen == {None} \cup { Some(n) : n \in 0..MaxBound }

Schemas ==
    [ pattern : {None, Some(LowerWord), Some(HasUpper), Some(BadPattern)},
      min_length : OptLen \cup {Some(-1)},
      max_length : OptLen,
      strip_whitespace : OptBool,
      to_lower : OptBool,
      to_upper : OptBool ]

Types == {"str", "int"}

-----------------------------------------------------------------------------
(* SimpleStrValidator *)

\* is_match without the test of the last key
SimpleStrValidator_is_match_NoUpper(t, d) ==
    /\ t = "str"
    /\ get_item(d, "pattern") = None
    /\ get_item(d, "min_length") = None
    /\ get_item(d, "max_length") = None
    /\ get_item(d, "strip_whitespace") = None
    /\ get_item(d, "to_lower") = None

SimpleStrValidator_is_match(t, d) ==
    /\ t = "str"
    /\ get_item(d, "pattern") = None
    /\ get_item(d, "min_length") = None
    /\ get_item(d, "max_length") = None
    /\ get_item(d, "strip_whitespace") = None
    /\ get_item(d, "to_lower") = None
    /\ get_item(d, "to_upper") = None

SimpleStrValidator_build(d) == [kind |-> "simple"]

\* validate that trims the coerced value
SimpleStrValidator_validate_Trim(self, input) ==
    LET s == validate_str(input) IN
    IF ~s.ok THEN s ELSE ValOk(trim(s.value))

SimpleStrValidator_validate(self, input) ==
    LET s == validate_str(input) IN
    IF ~s.ok THEN s ELSE ValOk(s.value)

-----------------------------------------------------------------------------
(* FullStrValidator *)

FullStrValidator_is_match(t, d) == t = "str"

BuildError(key) == [kind |-> "error", key |-> key]

\* the instance build makes once the pattern compiled and the lengths parsed
FullStrValidator_new(pattern, d) ==
    [ kind |-> "full",
      pattern |-> pattern,
      min_length |-> get_item(d, "min_length"),
      max_length |-> get_item(d, "max_length"),
      strip_whitespace |-> unwrap_or(get_item(d, "strip_whitespace"), FALSE),
      to_lower |-> unwrap_or(get_item(d, "to_lower"), FALSE),
      to_upper |-> unwrap_or(get_item(d, "to_upper"), FALSE) ]

compile_pattern(d) ==
    IF get_item(d, "pattern") = None
    THEN ValOk(None)
    ELSE LET p == RegexPattern_py_new(unwrap(get_item(d, "pattern")))
         IN IF p.ok THEN ValOk(Some(p.value)) ELSE p

\* build with strip_whitespace defaulting to true
FullStrValidator_build_StripDefault(d) ==
    LET pattern == compile_pattern(d)
    IN IF ~pattern.ok THEN BuildError("pattern")
       ELSE IF dict_get_usize_fails(get_item(d, "min_length")) THEN BuildError("min_length")
       ELSE IF dict_get_usize_fails(get_item(d, "max_length")) THEN BuildError("max_length")
       ELSE [ FullStrValidator_new(pattern.value, d) EXCEPT
                  !.strip_whitespace = unwrap_or(get_item(d, "strip_whitespace"), TRUE) ]

FullStrValidator_build(d) ==
    LET pattern == compile_pattern(d)
    IN IF ~pattern.ok THEN BuildError("pattern")
       ELSE IF dict_get_usize_fails(get_item(d, "min_length")) THEN BuildError("min_length")
       ELSE IF dict_get_usize_fails(get_item(d, "max_length")) THEN BuildError("max_length")
       ELSE FullStrValidator_new(pattern.value, d)

\* each check of validate gives its error, or None when the value passes

\* the min_length check with <= for <, reporting the value's length
min_length_check_Inclusive(self, str) ==
    IF self.min_length # None /\ len(str) <= unwrap(self.min_length)
    THEN Some(ValErr("StrTooShort", <<<<"min_length", len(str)>>>>, str))
    ELSE None

min_length_check(self, str) ==
    IF self.min_length # None /\ len(str) < unwrap(self.min_length)
    THEN Some(ValErr("StrTooShort", <<<<"min_length", unwrap(self.min_length)>>>>, str))
    ELSE None

max_length_check(self, str) ==
    IF self.max_length # None /\ len(str) > unwrap(self.max_length)
    THEN Some(ValErr("StrTooLong", <<<<"max_length", unwrap(self.max_length)>>>>, str))
    ELSE None

pattern_check(self, str) ==
    IF self.pattern # None /\ ~RegexPattern_is_match(unwrap(self.pattern), str)
    THEN Some(ValErr("StrPatternMismatch",
                     <<<<"pattern", RegexPattern_to_string(unwrap(self.pattern))>>>>, str))
    ELSE None

\* the checks with max_length looked at before min_length
check_constraints_MaxFirst(self, str) ==
    IF max_length_check(self, str) # None THEN max_length_check(self, str)
    ELSE IF min_length_check(self, str) # None THEN min_length_check(self, str)
    ELSE pattern_check(self, str)

\* the three checks in the order of validate: the first error, or None
check_constraints(self, str) ==
    IF min_length_check(self, str) # None THEN min_length_check(self, str)
    ELSE IF max_length_check(self, str) # None THEN max_length_check(self, str)
    ELSE pattern_check(self, str)

\* a strip that removes at most one white space character at each end
strip_step_Once(self, str) ==
    IF ~self.strip_whitespace THEN str
    ELSE LET a == IF str # <<>> /\ Head(str) \in WhiteSpace THEN Tail(str) ELSE str
         IN IF a # <<>> /\ a[Len(a)] \in WhiteSpace THEN SubSeq(a, 1, Len(a) - 1) ELSE a

strip_step(self, str) == IF self.strip_whitespace THEN trim(str) ELSE str

\* the case step with to_upper looked at before to_lower
case_step_UpperFirst(self, str) ==
    IF self.to_upper THEN to_uppercase(str)
    ELSE IF self.to_lower THEN to_lowercase(str)
    ELSE str

case_step(self, str) ==
    IF self.to_lower THEN to_lowercase(str)
    ELSE IF self.to_upper THEN to_uppercase(str)
    ELSE str

\* validate with the checks run on the transformed value
FullStrValidator_validate_TransformFirst(self, input) ==
    LET s == validate_str(input) IN
    IF ~s.ok THEN s
    ELSE LET v == case_step(self, strip_step(self, s.value))
             e == check_constraints(self, v)
         IN IF e # None THEN unwrap(e) ELSE ValOk(v)

FullStrValidator_validate(self, input) ==
    LET s == validate_str(input) IN
    IF ~s.ok THEN s
    ELSE LET e == check_constraints(self, s.value) IN
         IF e # None THEN unwrap(e)
         ELSE ValOk(case_step(self, strip_step(self, s.value)))

-----------------------------------------------------------------------------
(* Dispatch over the validator kinds *)

NoMatch == [kind |-> "nomatch"]
NotBuilt == [kind |-> "none"]

\* the kinds are tried in order, the simple kind before the full kind
build_validator(t, d) ==
    IF SimpleStrValidator_is_match(t, d) THEN SimpleStrValidator_build(d)
    ELSE IF FullStrValidator_is_match(t, d) THEN FullStrValidator_build(d)
    ELSE NoMatch

IsInstance(v) == v.kind \in {"simple", "full"}

\* Validator::validate through the trait object
validate(self, input) ==
    IF self.kind = "simple"
    THEN SimpleStrValidator_validate(self, input)
    ELSE FullStrValidator_validate(self, input)

\* a duplicate that leaves the pattern out
clone_dyn_DropPattern(self) ==
    IF self.kind = "full" THEN [self EXCEPT !.pattern = None] ELSE self

\* Validator::clone_dyn: Box::new(self.clone())
clone_dyn(self) == self

NoCall == [target |-> "none"]
Idle == [pc |-> "idle"]
Threads == {1, 2}

-----------------------------------------------------------------------------
(* Building a validator from a schema and calling it *)

Init ==
    /\ type_ \in Types
    /\ dict \in Schemas
    /\ validator = NotBuilt
    /\ dup = NotBuilt
    /\ latest = NotBuilt
    /\ call = NoCall
    /\ threads = [t \in Threads |-> Idle]

Build ==
    /\ validator = NotBuilt
    /\ validator' = build_validator(type_, dict)
    /\ UNCHANGED <<type_, dict, dup, latest, call, threads>>

Instance(target) ==
    IF target = "validator" THEN validator
    ELSE IF target = "dup" THEN dup
    ELSE latest

Validate(target, input) ==
    /\ call = NoCall
    /\ IsInstance(Instance(target))
    /\ call' = [target |-> target, input |-> input,
                outcome |-> validate(Instance(target), input)]
    /\ UNCHANGED <<type_, dict, validator, dup, latest, threads>>

\* the caller takes the outcome of the call
Return ==
    /\ call # NoCall
    /\ call' = NoCall
    /\ UNCHANGED <<type_, dict, validator, dup, latest, threads>>

Next ==
    \/ Build
    \/ \E input \in PyInputs(MaxLen) : Validate("validator", input)
    \/ Return

Spec == Init /\ [][Next]_vars

-----------------------------------------------------------------------------
(* Duplicating an instance, calling both, building again from the schema *)

DupSchemas ==
    [ pattern : {None, Some(LowerWord)},
      min_length : OptLen,
      max_length : {None},
      strip_whitespace : {None, Some(TRUE)},
      to_lower : {None},
      to_upper : {None, Some(TRUE)} ]

\* what the owner of the schema sets before it builds again
SchemaChanges ==
    { <<"min_length", Some(0)>>, <<"to_lower", Some(TRUE)>>, <<"pattern", Some(BadPattern)>> }

\* the state once the validator of the schema is built
InitDup ==
    /\ type_ = "str"
    /\ dict \in DupSchemas
    /\ validator = build_validator(type_, dict)
    /\ dup = NotBuilt
    /\ latest = NotBuilt
    /\ call = NoCall
    /\ threads = [t \in Threads |-> Idle]

CloneDyn ==
    /\ IsInstance(validator)
    /\ dup' = clone_dyn(validator)
    /\ UNCHANGED <<type_, dict, validator, latest, call, threads>>

\* the owner changes a key of the schema and builds a validator from it; the
\* instances built before are not touched
Rebuild(key, value) ==
    /\ dict' = [dict EXCEPT ![key] = value]
    /\ latest' = build_validator(type_, dict')
    /\ UNCHANGED <<type_, validator, dup, call, threads>>

NextDup ==
    \/ CloneDyn
    \/ \E c \in SchemaChanges : Rebuild(c[1], c[2])
    \/ \E target \in {"validator", "dup", "latest"} :
          \E input \in PyInputs(MaxDupLen) : Validate(target, input)
    \/ Return

SpecDup == InitDup /\ [][NextDup]_vars

-----------------------------------------------------------------------------
(* Concurrent calls on one instance: validate taken step by step, each step
   reading the fields of the shared instance *)

ConcSchemas ==
    [ pattern : {None, Some(LowerWord)},
      min_length : {None, Some(1)},
      max_length : {None, Some(1)},
      strip_whitespace : {Some(TRUE)},
      to_lower : {None},
      to_upper : {None, Some(TRUE)} ]
        \cup { [k \in Keys |-> None] }

InitConc ==
    /\ type_ = "str"
    /\ dict \in ConcSchemas
    /\ validator = build_validator(type_, dict)
    /\ dup = NotBuilt
    /\ latest = NotBuilt
    /\ call = NoCall
    /\ threads = [t \in Threads |-> Idle]

At(t, pc) == threads[t].pc = pc

Goto(t, pc, str) ==
    threads' = [threads EXCEPT ![t] = [pc |-> pc, input |-> threads[t].input, str |-> str]]

Finish(t, outcome) ==
    threads' = [threads EXCEPT
                   ![t] = [pc |-> "done", input |-> threads[t].input, outcome |-> outcome]]

\* a thread calls validate(input)
Begin(t, input) ==
    /\ At(t, "idle")
    /\ threads' = [threads EXCEPT ![t] = [pc |-> "coerce", input |-> input]]
    /\ UNCHANGED <<type_, dict, validator, dup, latest, call>>

\* validate_str(py, input)?; the simple validator returns here
Coerce(t) ==
    /\ At(t, "coerce")
    /\ LET s == validate_str(threads[t].input) IN
       IF ~s.ok THEN Finish(t, s)
       ELSE IF validator.kind = "simple" THEN Finish(t, ValOk(s.value))
       ELSE Goto(t, "min_length", s.value)
    /\ UNCHANGED <<type_, dict, validator, dup, latest, call>>

\* a min_length check that takes the bound out of the instance
CheckMin_Take(t) ==
    /\ At(t, "min_length")
    /\ LET e == min_length_check(validator, threads[t].str) IN
       IF e # None THEN Finish(t, unwrap(e))
       ELSE Goto(t, "max_length", threads[t].str)
    /\ validator' = [validator EXCEPT !.min_length = None]
    /\ UNCHANGED <<type_, dict, dup, latest, call>>

CheckMin(t) ==
    /\ At(t, "min_length")
    /\ LET e == min_length_check(validator, threads[t].str) IN
       IF e # None THEN Finish(t, unwrap(e))
       ELSE Goto(t, "max_length", threads[t].str)
    /\ UNCHANGED <<type_, dict, validator, dup, latest, call>>

CheckMax(t) ==
    /\ At(t, "max_length")
    /\ LET e == max_length_check(validator, threads[t].str) IN
       IF e # None THEN Finish(t, unwrap(e))
       ELSE Goto(t, "pattern", threads[t].str)
    /\ UNCHANGED <<type_, dict, validator, dup, latest, call>>

CheckPattern(t) ==
    /\ At(t, "pattern")
    /\ LET e == pattern_check(validator, threads[t].str) IN
       IF e # None THEN Finish(t, unwrap(e))
       ELSE Goto(t, "strip", threads[t].str)
    /\ UNCHANGED <<type_, dict, validator, dup, latest, call>>

Strip(t) ==
    /\ At(t, "strip")
    /\ Goto(t, "case", strip_step(validator, threads[t].str))
    /\ UNCHANGED <<type_, dict, validator, dup, latest, call>>

Case(t) ==
    /\ At(t, "case")
    /\ Finish(t, ValOk(case_step(validator, threads[t].str)))
    /\ UNCHANGED <<type_, dict, validator, dup, latest, call>>

\* the thread takes the outcome
Taken(t) ==
    /\ At(t, "done")
    /\ threads' = [threads EXCEPT ![t] = Idle]
    /\ UNCHANGED <<type_, dict, validator, dup, latest, call>>

NextConc ==
    \/ \E t \in Threads : \E input \in PyInputs(MaxConcLen) : Begin(t, input)
    \/ \E t \in Threads : Coerce(t)
    \/ \E t \in Threads : CheckMin(t)
    \/ \E t \in Threads : CheckMax(t)
    \/ \E t \in Threads : CheckPattern(t)
    \/ \E t \in Threads : Strip(t)
    \/ \E t \in Threads : Case(t)
    \/ \E t \in Threads : Taken(t)
    \/ CloneDyn

SpecConc == InitConc /\ [][NextConc]_vars

-----------------------------------------------------------------------------
(* Properties of a call on the validator built from the schema *)

Called == call # NoCall
CalledFull == Called /\ Instance(call.target).kind = "full"
CalledSimple == Called /\ Instance(call.target).kind = "simple"

\* the instance called, the outcome of the call and the outcome of the coercion
Self == Instance(call.target)
Out == call.outcome
Coerced == validate_str(call.input)

TooShort(self, s) == self.min_length # None /\ \E m \in self.min_length : len(s) < m
TooLong(self, s) == self.max_length # None /\ \E n \in self.max_length : len(s) > n
Mismatch(self, s) ==
    self.pattern # None /\ \E p \in self.pattern : ~RegexPattern_is_match(p, s)

ConstraintKinds == {"StrTooShort", "StrTooLong", "StrPatternMismatch"}

AsText(s) == [py |-> "str", text |-> s]

-----------------------------------------------------------------------------
(* C1: the order of the checks and the single error of a failed call *)

\* C1: a call on the full validator returns the error of the first failing
\* step in the order coercion, min_length, max_length, pattern: the coercion's
\* error whatever the constraints are, StrTooShort whenever the min_length
\* check fails, StrTooLong only if the min_length check passed,
\* StrPatternMismatch only if both length checks passed; a failed call carries
\* the untransformed value, and the call succeeds exactly when no step fails.
C1_FirstFailingStep ==
    CalledFull =>
        /\ ~Coerced.ok => Out = Coerced
        /\ Coerced.ok =>
            LET s == Coerced.value IN
            /\ TooShort(Self, s) => ~Out.ok /\ Out.kind = "StrTooShort"
            /\ (~Out.ok /\ Out.kind = "StrTooLong") <=>
                   (~TooShort(Self, s) /\ TooLong(Self, s))
            /\ (~Out.ok /\ Out.kind = "StrPatternMismatch") <=>
                   (~TooShort(Self, s) /\ ~TooLong(Self, s) /\ Mismatch(Self, s))
            /\ ~Out.ok => Out.kind \in ConstraintKinds /\ Out.value = s
            /\ Out.ok <=> ~(TooShort(Self, s) \/ TooLong(Self, s) \/ Mismatch(Self, s))

\* a text that fails all three checks at once was reported as too short
C1_Witness ==
    /\ CalledFull
    /\ Coerced.ok
    /\ TooShort(Self, Coerced.value)
    /\ TooLong(Self, Coerced.value)
    /\ Mismatch(Self, Coerced.value)
    /\ ~Out.ok
    /\ Out.kind = "StrTooShort"

-----------------------------------------------------------------------------
(* C2: which kind is selected *)

KeyPresent(d) == \E k \in Keys : get_item(d, k) # None

\* C2: once the schema has been presented to the kinds, the simple kind was
\* selected exactly when the declared type is text and none of the six keys
\* is present; with a key present the full kind was selected (its build made
\* the instance or failed); for another declared type no kind matched.
C2_Selection ==
    validator # NotBuilt =>
        /\ validator.kind = "simple" <=> (type_ = "str" /\ ~KeyPresent(dict))
        /\ validator.kind \in {"full", "error"} <=> (type_ = "str" /\ KeyPresent(dict))
        /\ validator.kind = "nomatch" <=> type_ # "str"

\* a schema whose only key is to_upper, set to false, got the full kind
C2_Witness ==
    /\ validator.kind = "full"
    /\ type_ = "str"
    /\ \A k \in Keys \ {"to_upper"} : get_item(dict, k) = None
    /\ get_item(dict, "to_upper") = Some(FALSE)

-----------------------------------------------------------------------------
(* C3: the checks read the original value *)

HiPadded == <<" ", " ", "h", "i", " ", " ">>

MinSixStrip ==
    [ kind |-> "full", pattern |-> None, min_length |-> Some(6), max_length |-> None,
      strip_whitespace |-> TRUE, to_lower |-> FALSE, to_upper |-> FALSE ]

\* C3: a call on the full validator succeeds exactly when the coerced,
\* untransformed value meets min_length, max_length and pattern, whatever the
\* transformed value would meet; with min_length = 6 and strip_whitespace the
\* text of two spaces, 'hi' and two spaces gives 'hi'.
C3_ChecksOnOriginal ==
    /\ CalledFull /\ Coerced.ok =>
          (Out.ok <=> ~(\/ TooShort(Self, Coerced.value)
                        \/ TooLong(Self, Coerced.value)
                        \/ Mismatch(Self, Coerced.value)))
    /\ FullStrValidator_validate(MinSixStrip, AsText(HiPadded)) = ValOk(<<"h", "i">>)

\* a call succeeded although its result is shorter than min_length
C3_Witness ==
    /\ CalledFull
    /\ Out.ok
    /\ Out.value # Coerced.value
    /\ TooShort(Self, Out.value)

-----------------------------------------------------------------------------
(* C4: validating the output again *)

Again == validate(Self, AsText(Out.value))

\* C4 as stated: validating a successful output again succeeds and returns it
C4_RoundTrip_Original ==
    CalledFull /\ Out.ok => Again = ValOk(Out.value)

\* C4 amended: validating a successful output v again never returns a value
\* other than v: it returns v, or fails with a constraint error because v
\* itself, on which the checks now run, does not meet a constraint; it returns
\* v whenever v meets min_length, max_length and pattern, in particular
\* whenever the first call left the value unchanged.
C4_RoundTrip ==
    CalledFull /\ Out.ok =>
        /\ Again.ok => Again.value = Out.value
        /\ ~Again.ok => Again.kind \in ConstraintKinds /\ Out.value # Coerced.value
        /\ ~(TooShort(Self, Out.value) \/ TooLong(Self, Out.value) \/ Mismatch(Self, Out.value))
               => Again = ValOk(Out.value)

\* a transformed output that validates to itself
C4_Witness ==
    /\ CalledFull
    /\ Out.ok
    /\ Out.value # Coerced.value
    /\ Self.strip_whitespace
    /\ Self.to_upper
    /\ Again = ValOk(Out.value)

-----------------------------------------------------------------------------
(* C5: the length bounds *)

MaxThree ==
    [ kind |-> "full", pattern |-> None, min_length |-> None, max_length |-> Some(3),
      strip_whitespace |-> FALSE, to_lower |-> FALSE, to_upper |-> FALSE ]

\* C5: with min_length = m the call fails with StrTooShort and context
\* min_length = m exactly when the length is less than m; with max_length = n
\* a value that passed the min check fails with StrTooLong and context
\* max_length = n exactly when the length is greater than n; both comparisons
\* use the length str.len() gives; 'abcd' fails max_length = 3, 'abc' passes.
C5_LengthBounds ==
    /\ CalledFull /\ Coerced.ok =>
        LET s == Coerced.value IN
        /\ \A m \in Self.min_length :
              /\ len(s) < m <=> (~Out.ok /\ Out.kind = "StrTooShort")
              /\ len(s) < m => Out.context = <<<<"min_length", m>>>>
        /\ \A n \in Self.max_length :
              ~TooShort(Self, s) =>
                  /\ len(s) > n <=> (~Out.ok /\ Out.kind = "StrTooLong")
                  /\ len(s) > n => Out.context = <<<<"max_length", n>>>>
    /\ LET r == FullStrValidator_validate(MaxThree, AsText(<<"a", "b", "c", "d">>)) IN
          ~r.ok /\ r.kind = "StrTooLong" /\ r.context = <<<<"max_length", 3>>>>
    /\ FullStrValidator_validate(MaxThree, AsText(<<"a", "b", "c">>)).ok

\* a text with a two-byte character whose length equals both bounds passed
C5_Witness ==
    /\ CalledFull
    /\ Coerced.ok
    /\ Self.min_length = Some(len(Coerced.value))
    /\ Self.max_length = Some(len(Coerced.value))
    /\ Len(Coerced.value) < len(Coerced.value)
    /\ Out.ok

-----------------------------------------------------------------------------
(* C6: the case transformation *)

BothCases ==
    [ kind |-> "full", pattern |-> None, min_length |-> None, max_length |-> None,
      strip_whitespace |-> FALSE, to_lower |-> TRUE, to_upper |-> TRUE ]

\* C6: a successful call returns the lowercased value when to_lower is set,
\* to_upper set or not; the uppercased value only when to_upper is set and
\* to_lower is not; with strip_whitespace the value is trimmed before its case
\* is changed; with both flags 'AbC' gives 'abc'.
C6_LowerWins ==
    /\ CalledFull /\ Out.ok =>
        LET s == IF Self.strip_whitespace THEN trim(Coerced.value) ELSE Coerced.value IN
        /\ Self.to_lower => Out.value = to_lowercase(s)
        /\ Self.to_upper /\ ~Self.to_lower => Out.value = to_uppercase(s)
        /\ ~Self.to_upper /\ ~Self.to_lower => Out.value = s
    /\ FullStrValidator_validate(BothCases, AsText(<<"A", "b", "C">>)) = ValOk(<<"a", "b", "c">>)

\* with both flags and strip_whitespace a text was trimmed and lowercased
C6_Witness ==
    /\ CalledFull
    /\ Out.ok
    /\ Self.to_lower
    /\ Self.to_upper
    /\ Self.strip_whitespace
    /\ trim(Coerced.value) # Coerced.value
    /\ to_lowercase(trim(Coerced.value)) # trim(Coerced.value)
    /\ to_uppercase(trim(Coerced.value)) # trim(Coerced.value)
    /\ Out.value = to_lowercase(trim(Coerced.value))

-----------------------------------------------------------------------------
(* C7: the simple validator *)

\* C7: the outcome of a call on the simple validator is the outcome of the
\* coercion: its value unchanged or its error unchanged, never a constraint
\* error.
C7_SimpleIsCoercion ==
    CalledSimple =>
        /\ Out = Coerced
        /\ ~Out.ok => Out.kind \notin ConstraintKinds

\* the simple validator returned a text with white space at both ends as it is
C7_Witness ==
    /\ CalledSimple
    /\ Out.ok
    /\ Len(Out.value) = MaxLen
    /\ trim(Out.value) # Out.value
    /\ Out.value = call.input.text

-----------------------------------------------------------------------------
(* C8: the duplicate *)

\* C8: a duplicate holds what its original holds, a call on either has the
\* outcome the other gives for the same input, and every input of the bound
\* gets the same outcome from both; calls on either and later builds from the
\* changed schema leave this so.
C8_DuplicateAgrees ==
    IsInstance(dup) =>
        /\ dup = validator
        /\ Called /\ call.target = "dup" => Out = validate(validator, call.input)
        /\ Called /\ call.target = "validator" => Out = validate(dup, call.input)
        /\ \A input \in PyInputs(MaxDupLen) : validate(dup, input) = validate(validator, input)

\* after a later build from the changed schema gave another validator, a call
\* on the duplicate of a full validator with a pattern failed on the pattern
C8_Witness ==
    /\ IsInstance(dup)
    /\ IsInstance(latest)
    /\ latest # validator
    /\ Called
    /\ call.target = "dup"
    /\ ~Out.ok
    /\ Out.kind = "StrPatternMismatch"

-----------------------------------------------------------------------------
(* C9: the instance is not changed by validate *)

Built == build_validator(type_, dict)

\* C9: whatever the calls in progress, the instance holds what build set and
\* so does a duplicate made meanwhile; the outcome of every finished call is
\* the outcome of that call alone on the instance as built.
C9_ValidateLeavesInstance ==
    /\ validator = Built
    /\ IsInstance(dup) => dup = Built
    /\ \A t \in Threads :
          At(t, "done") => threads[t].outcome = validate(Built, threads[t].input)

\* one call has failed the min_length check while another one, past its own
\* checks, is still in progress, and a duplicate has been made
C9_Witness ==
    /\ IsInstance(dup)
    /\ \E t, u \in Threads :
          /\ At(t, "done")
          /\ ~threads[t].outcome.ok
          /\ threads[t].outcome.kind = "StrTooShort"
          /\ At(u, "case")

-----------------------------------------------------------------------------
(* C10: the full validator without an effective constraint *)

NoEffectiveConstraint(d) ==
    /\ get_item(d, "pattern") = None
    /\ get_item(d, "min_length") = None
    /\ get_item(d, "max_length") = None
    /\ get_item(d, "strip_whitespace") \in {None, Some(FALSE)}
    /\ get_item(d, "to_lower") \in {None, Some(FALSE)}
    /\ get_item(d, "to_upper") \in {None, Some(FALSE)}

\* C10: a call on a full validator built from a schema without an effective
\* constraint has the outcome the simple validator gives for the same input.
C10_FastPathEquivalent ==
    CalledFull /\ NoEffectiveConstraint(dict) =>
        Out = SimpleStrValidator_validate(SimpleStrValidator_build(dict), call.input)

\* the full validator of a schema that only carries strip_whitespace = false
\* returned a text with white space around it unchanged
C10_Witness ==
    /\ CalledFull
    /\ NoEffectiveConstraint(dict)
    /\ get_item(dict, "strip_whitespace") = Some(FALSE)
    /\ Out.ok
    /\ trim(Out.value) # Out.value
    /\ to_lowercase(Out.value) # Out.value

====
